---- MODULE Spec2Model ----
(***************************************************************************)
(* FLIR Lepton command-protocol driver (projects/camera_stm32f7/flir.c)    *)
(* on top of the I2C word transport and the millisecond clock              *)
(* (projects/camera_stm32f7/utility.c).                                    *)
(***************************************************************************)
EXTENDS Naturals, Integers, Sequences, FiniteSets, TLC

(***************************************************************************)
(* Register map and bit masks of flir.h / flir_defines.h.                  *)
(***************************************************************************)
LEP_I2C_DEVICE_ADDRESS == 42
LEP_I2C_STATUS_REG == 2
LEP_I2C_COMMAND_REG == 4
LEP_I2C_DATA_LENGTH_REG == 6
LEP_I2C_DATA_0_REG == 8
LEP_I2C_DATA_BUFFER == 63488
LEP_I2C_COMMAND_MODULE_ID_BIT_MASK == 3840
LEP_I2C_COMMAND_ID_BIT_MASK == 252
LEP_I2C_COMMAND_TYPE_BIT_MASK == 3
LEP_I2C_STATUS_BUSY_BIT_MASK == 1
LEP_I2C_STATUS_ERROR_CODE_BIT_MASK == 65280
LEP_I2C_STATUS_ERROR_CODE_BIT_SHIFT == 8
LEP_OK == 0

\* Direction argument of i2c_prepare: zero reads, one writes.
I2C_READ_DIR == 0
I2C_WRITE_DIR == 1

\* Number of direct data slots DATA_0..DATA_15.
DirectSlots == 16

\* Protocol timeout of get/set (flir.h) and per-byte bus timeout (utility.h),
\* in milliseconds; the model runs them at small values.
FLIR_BUSY_TIMEOUT == 1
I2C_TIMEOUT == 1

(***************************************************************************)
(* Fixed-width integers.  uint8_t and uint16_t are naturals reduced modulo *)
(* their width.  uint32_t and uint64_t are sequences of 16-bit limbs, most *)
(* significant first (TLC's integers stop at 2^31 - 1).                    *)
(***************************************************************************)
Byte == 256
Limb == 65536

U8(x) == x % Byte
U16(x) == x % Limb

RECURSIVE Pow2(_)
Pow2(n) == IF n = 0 THEN 1 ELSE 2 * Pow2(n - 1)

\* a & b on 16-bit operands.
RECURSIVE BitAndFrom(_, _, _)
BitAndFrom(a, b, n) ==
    IF n = 0 THEN 0
    ELSE 2 * BitAndFrom(a \div 2, b \div 2, n - 1)
         + (IF a % 2 = 1 /\ b % 2 = 1 THEN 1 ELSE 0)
BitAnd(a, b) == BitAndFrom(a, b, 16)

\* a | b on 16-bit operands.
RECURSIVE BitOrFrom(_, _, _)
BitOrFrom(a, b, n) ==
    IF n = 0 THEN 0
    ELSE 2 * BitOrFrom(a \div 2, b \div 2, n - 1)
         + (IF a % 2 = 1 \/ b % 2 = 1 THEN 1 ELSE 0)
BitOr(a, b) == BitOrFrom(a, b, 16)

ShiftRight(a, n) == a \div Pow2(n)
ShiftLeft(a, n) == a * Pow2(n)

\* v + k on limbs, the carry out of the top limb dropped.
RECURSIVE AddLimbs(_, _, _)
AddLimbs(v, i, carry) ==
    IF i = 0 THEN v
    ELSE AddLimbs([v EXCEPT ![i] = (v[i] + carry) % Limb], i - 1,
                  (v[i] + carry) \div Limb)
AddWide(v, k) == AddLimbs(v, Len(v), k)

\* v * k on limbs, modulo the width of v.
RECURSIVE MulLimbs(_, _, _, _)
MulLimbs(v, i, k, carry) ==
    IF i = 0 THEN v
    ELSE MulLimbs([v EXCEPT ![i] = (v[i] * k + carry) % Limb], i - 1, k,
                  (v[i] * k + carry) \div Limb)
MulWide(v, k) == MulLimbs(v, Len(v), k, 0)

\* a < b on limb sequences of one length.
RECURSIVE LessFrom(_, _, _)
LessFrom(a, b, i) ==
    IF i > Len(a) THEN FALSE
    ELSE IF a[i] # b[i] THEN a[i] < b[i]
    ELSE LessFrom(a, b, i + 1)
LessWide(a, b) == LessFrom(a, b, 1)

\* (uint32_t) of a uint64_t; (uint32_t) of a uint16_t.
Low32(v) == <<v[3], v[4]>>

(***************************************************************************)
(* command_code()                                                          *)
(***************************************************************************)
command_code_unmasked_type(cmd_id, cmd_type) ==
    BitOr(BitOr(BitAnd(cmd_id, LEP_I2C_COMMAND_MODULE_ID_BIT_MASK),
                BitAnd(cmd_id, LEP_I2C_COMMAND_ID_BIT_MASK)),
          cmd_type)

command_code(cmd_id, cmd_type) ==
    BitOr(BitOr(BitAnd(cmd_id, LEP_I2C_COMMAND_MODULE_ID_BIT_MASK),
                BitAnd(cmd_id, LEP_I2C_COMMAND_ID_BIT_MASK)),
          BitAnd(cmd_type, LEP_I2C_COMMAND_TYPE_BIT_MASK))

(***************************************************************************)
(* State.                                                                  *)
(*   _millis          the 64-bit millisecond counter of utility.c          *)
(*   last_flir_error  the static of flir.c                                 *)
(*   app   the caller's current call into flir.c and its return value      *)
(*   wb    frame of wait_busy_bit     dl   frame of delay                  *)
(*   rg    frame of read_register / write_register / read_data_register /  *)
(*         write_command_register                                          *)
(*   io    frame of the i2c_* transport function in progress               *)
(*   bus   the transaction programmed by the last i2c_prepare              *)
(*   data_words  the caller's word buffer                                  *)
(*   dev   the camera: register pointer, word and data it answers with     *)
(*   obs   observations of the run in progress (history only)              *)
(***************************************************************************)
VARIABLES _millis, last_flir_error, app, wb, dl, rg, io, bus, data_words, dev, obs

vars == <<_millis, last_flir_error, app, wb, dl, rg, io, bus, data_words, dev, obs>>

\* Bounds of the model.
\* MaxTicks: how far the counter is followed past its boot value; the camera
\* answers BUSY and lets a bus wait time out only while ticks remain.
MaxTicks == 3
MaxTimeout == 2
MaxStrayTicks == 1
MaxElapsed == 5

\* Values the counter holds when a call begins: just after reset, and after
\* 2^32 - 1 ticks of uptime.
BootValues == { <<0, 0, 0, 0>>, <<0, 0, Limb - 1, Limb - 1>> }

\* Command codes the caller passes: OEM/VID style ids composed with a type.
CmdCodes == { command_code(2076, 1) }

\* Word counts the caller asks for (get) or supplies (set).
GetCounts == { 0, 1, 17, 128 }
SetCounts == { 0, 1, 16, 17 }

\* What the caller's buffer holds before a get.
FillWords == { 43690 }

\* STATUS words the camera answers with: BUSY is bit 0, bits 1-2 are the
\* boot flags, the high byte is the error code.
StatusWords == { 6, 769, 774 }

\* DATA_LENGTH words the camera answers with for a request of n words.
EchoWords(n) == { 0, n, 2 * n, 2 * n + 256 }

\* Byte k (from 0) of the data block the camera streams, by block.
DataBlocks == { 0, 1 }
DevByte(block, k) == (37 * k + 101 * block + 1) % Byte

\* Status values of the buffered write transactions (0 is success).
EndStatus == { 0, 2, 3 }

Min(a, b) == IF a < b THEN a ELSE b

IoIdle ==
    [fn |-> "none", pc |-> "none", data |-> <<>>, num_words |-> 0,
     num_bytes |-> 0, i |-> 0, high_byte |-> TRUE, high |-> 0, k |-> 0,
     word |-> 0, ret |-> FALSE]

RgIdle ==
    [fn |-> "none", pc |-> "none", reg_address |-> 0, value |-> 0,
     num_bytes |-> 0, max_length |-> 0, status |-> 0, ret |-> FALSE]

WbIdle ==
    [pc |-> "none", timeout |-> 0, status |-> 0, end_time |-> <<0, 0>>,
     ret |-> FALSE]

DlIdle == [until |-> <<0, 0, 0, 0>>]

AppIdle ==
    [fn |-> "idle", pc |-> "done", cmd_id |-> 0, cmd_type |-> 0,
     cmd_code |-> 0, num_words |-> 0, timeout |-> 0, ret |-> FALSE,
     value |-> 0]

ObsCall ==
    [ticks |-> 0, strayTicks |-> 0,
     elapsed |-> 0, stray |-> FALSE, statusReads |-> 0, sleeps |-> 0,
     clockReads |-> 0, allBusy |-> TRUE, firstClear |-> FALSE,
     hadOk |-> FALSE, okStatus |-> 0,
     readFailed |-> FALSE, failReads |-> 0, failSleeps |-> 0,
     xfers |-> <<>>, ptrFailed |-> FALSE,
     steps |-> <<>>, failed |-> FALSE, afterFail |-> FALSE, cmdWrites |-> 0,
     pointers |-> <<>>,
     buf0 |-> <<>>, dataRead |-> FALSE, ptrAtData |-> 0, echo |-> 0,
     echoSeen |-> FALSE, supplied |-> 0, overrun |-> FALSE,
     payloadAddr |-> 0, payloadSent |-> FALSE]

\* The controller before any transaction.
BusIdle ==
    [dir |-> I2C_WRITE_DIR, nbytes |-> 0, sent |-> <<>>, count |-> 0,
     ops |-> <<>>]

Init ==
    /\ _millis \in BootValues
    /\ last_flir_error = LEP_OK
    /\ app = AppIdle
    /\ wb = WbIdle
    /\ dl = DlIdle
    /\ rg = RgIdle
    /\ io = IoIdle
    /\ bus = BusIdle
    /\ data_words = <<>>
    /\ dev = [ptr |-> 0, word |-> 0, block |-> 0]
    /\ obs = ObsCall

(***************************************************************************)
(* The clock: millis(), sys_tick_handler(), delay().                       *)
(***************************************************************************)
millis == _millis

\* The clock moved by k ticks outside the 1 ms sleep of wait_busy_bit.
ObsStray(o, k) ==
    [o EXCEPT !.elapsed = Min(@ + k, MaxElapsed), !.stray = TRUE,
              !.ticks = @ + k]

TicksRemain == obs.ticks < MaxTicks

InSleep == wb.pc = "delay" /\ LessWide(millis, dl.until)

\* Where wait_busy_bit or delay reads the clock next.
ReadsClockNext == wb.pc \in { "deadline", "loop", "flir_delay", "delay" }

\* The tick interrupt.  It is followed where the driver can tell it happened:
\* during the sleep, and (MaxStrayTicks times a call) just before another
\* read of the clock.
sys_tick_handler ==
    /\ app.pc # "done"
    /\ \/ InSleep
       \/ ReadsClockNext /\ obs.strayTicks < MaxStrayTicks /\ TicksRemain
    /\ _millis' = AddWide(_millis, 1)
    /\ obs' = IF InSleep
              THEN [obs EXCEPT !.elapsed = Min(@ + 1, MaxElapsed),
                               !.ticks = @ + 1]
              ELSE [ObsStray(obs, 1) EXCEPT !.strayTicks = @ + 1]
    /\ UNCHANGED <<last_flir_error, app, wb, dl, rg, io, bus, data_words, dev>>

(***************************************************************************)
(* Transport: i2c_prepare and the word functions flir.c uses.  One action  *)
(* per loop iteration; the iteration's bounded wait either lets the byte   *)
(* through or times out, the clock then having passed its deadline.        *)
(***************************************************************************)
\* As i2c_prepare, but auto-end is enabled before the start condition in
\* both directions.
i2c_prepare_autoend_first(dir, num_bytes) ==
    [dir |-> dir, nbytes |-> U8(num_bytes), sent |-> <<>>, count |-> 0,
     ops |-> << "i2c_set_7bit_address",
                IF dir # 0 THEN "i2c_set_write_transfer_dir"
                ELSE "i2c_set_read_transfer_dir",
                "i2c_set_bytes_to_transfer",
                "i2c_enable_autoend", "i2c_send_start" >>]

\* i2c_prepare: the controller operations in the order issued (ops), the
\* direction and the uint8_t byte count programmed; nothing sent or received
\* yet.
i2c_prepare(dir, num_bytes) ==
    [dir |-> dir, nbytes |-> U8(num_bytes), sent |-> <<>>, count |-> 0,
     ops |-> << "i2c_set_7bit_address",
                IF dir # 0 THEN "i2c_set_write_transfer_dir"
                ELSE "i2c_set_read_transfer_dir",
                "i2c_set_bytes_to_transfer" >>
             \o (IF dir # 0
                 THEN << "i2c_enable_autoend", "i2c_send_start" >>
                 ELSE << "i2c_send_start", "i2c_enable_autoend" >>)]

i2c_send_data(b, byte) ==
    [b EXCEPT !.sent = Append(@, byte), !.count = @ + 1]

i2c_get_data(b) == [b EXCEPT !.count = @ + 1]

\* The camera's register pointer: set by the first two bytes of a write,
\* advanced by every further word written or read.
DevWritten(d, b) ==
    IF b.count = 2 THEN [d EXCEPT !.ptr = b.sent[1] * Byte + b.sent[2]]
    ELSE IF b.count % 2 = 0 THEN [d EXCEPT !.ptr = U16(@ + 2)]
    ELSE d

DevRead(d, b) ==
    IF b.count % 2 = 0 THEN [d EXCEPT !.ptr = U16(@ + 2)] ELSE d

\* A bounded wait that timed out: wait_for_ack / wait_for_empty_data_reg
\* return false once millis() > until.
WaitTimedOut ==
    /\ _millis' = AddWide(_millis, I2C_TIMEOUT + 1)

\* Whether the wait of a loop pass lets the byte through.
WaitOutcomes == IF TicksRemain THEN BOOLEAN ELSE { TRUE }

ObsBus(o) == [o EXCEPT !.afterFail = @ \/ o.failed]

\* A transaction was begun by i2c_prepare: its direction and declared length
\* join those of the register function that is running.
ObsPrepared(o, b) ==
    [ObsBus(o) EXCEPT !.xfers = Append(@, <<b.dir, b.nbytes>>)]

\* A register function is entered.
ObsNewRegister(o) == [o EXCEPT !.xfers = <<>>, !.ptrFailed = FALSE]

\* The register address a write transaction began with.
Pointer(b) == b.sent[1] * Byte + b.sent[2]

\* Bytes went out: the pointers written so far (a repeated one noted once),
\* and the writes of a value to the COMMAND register.
ObsSent(o, b) ==
    [ObsBus(o) EXCEPT
       !.pointers = IF b.count = 2 /\ (@ = <<>> \/ @[Len(@)] # Pointer(b))
                    THEN Append(@, Pointer(b)) ELSE @,
       !.cmdWrites = IF b.count = 3 /\ Pointer(b) = LEP_I2C_COMMAND_REG
                     THEN @ + 1 ELSE @]

\* A buffered transaction of at least two words went out whole.
ObsTransmitted(o, b) ==
    [ObsBus(o) EXCEPT
       !.pointers = IF @ = <<>> \/ @[Len(@)] # Pointer(b)
                    THEN Append(@, Pointer(b)) ELSE @,
       !.cmdWrites = IF Pointer(b) = LEP_I2C_COMMAND_REG THEN @ + 1 ELSE @]

IoReturn(f, r) == [f EXCEPT !.pc = "done", !.ret = r]

\* i2c_write16: entry up to i2c_prepare.
I2cWrite16Enter ==
    /\ io.fn = "i2c_write16" /\ io.pc = "enter"
    /\ io' = [io EXCEPT !.pc = "loop", !.i = 0,
                        !.data = << BitAnd(U8(ShiftRight(io.word, 8)), 255),
                                    BitAnd(U8(io.word), 255) >>]
    /\ bus' = i2c_prepare(I2C_WRITE_DIR, 2)
    /\ obs' = ObsPrepared(obs, bus')
    /\ UNCHANGED <<_millis, last_flir_error, app, wb, dl, rg, data_words, dev>>

\* i2c_write16: one pass of the for loop.
I2cWrite16Byte ==
    /\ io.fn = "i2c_write16" /\ io.pc = "loop"
    /\ \E acked \in WaitOutcomes :
        IF acked
        THEN /\ bus' = i2c_send_data(bus, io.data[io.i + 1])
             /\ dev' = DevWritten(dev, bus')
             /\ io' = IF io.i + 1 < 2 THEN [io EXCEPT !.i = @ + 1]
                      ELSE IoReturn([io EXCEPT !.i = @ + 1], TRUE)
             /\ obs' = ObsSent(obs, bus')
             /\ UNCHANGED _millis
        ELSE /\ WaitTimedOut
             /\ io' = IoReturn(io, FALSE)
             /\ obs' = ObsStray(ObsBus(obs), I2C_TIMEOUT + 1)
             /\ UNCHANGED <<bus, dev>>
    /\ UNCHANGED <<last_flir_error, app, wb, dl, rg, data_words>>

\* i2c_write16_array: entry up to the while loop.
I2cWrite16ArrayEnter ==
    /\ io.fn = "i2c_write16_array" /\ io.pc = "enter"
    /\ io' = [io EXCEPT !.pc = "loop", !.high_byte = TRUE, !.k = 0,
                        !.num_bytes = U16(2 * io.num_words)]
    /\ bus' = i2c_prepare(I2C_WRITE_DIR, 2 * io.num_words)
    /\ obs' = ObsPrepared(obs, bus')
    /\ UNCHANGED <<_millis, last_flir_error, app, wb, dl, rg, data_words, dev>>

\* i2c_write16_array: the while test and one pass of its body.
I2cWrite16ArrayByte ==
    /\ io.fn = "i2c_write16_array" /\ io.pc = "loop"
    /\ IF io.num_bytes = 0
       THEN /\ io' = IoReturn(io, TRUE)
            /\ UNCHANGED <<_millis, bus, dev, obs>>
       ELSE \E acked \in WaitOutcomes :
            IF acked
            THEN /\ bus' = i2c_send_data(bus,
                               IF io.high_byte
                               THEN BitAnd(U8(ShiftRight(io.data[io.k + 1], 8)), 255)
                               ELSE U8(BitAnd(io.data[io.k + 1], 255)))
                 /\ dev' = DevWritten(dev, bus')
                 /\ io' = [io EXCEPT !.num_bytes = @ - 1,
                                     !.high_byte = ~@,
                                     !.k = IF io.high_byte THEN @ ELSE @ + 1]
                 /\ obs' = ObsSent(obs, bus')
                 /\ UNCHANGED _millis
            ELSE /\ WaitTimedOut
                 /\ io' = IoReturn([io EXCEPT !.num_bytes = @ - 1], FALSE)
                 /\ obs' = ObsStray(ObsBus(obs), I2C_TIMEOUT + 1)
                 /\ UNCHANGED <<bus, dev>>
    /\ UNCHANGED <<last_flir_error, app, wb, dl, rg, data_words>>

\* What the camera answers a 2-byte read with, by the register it points at.
DevAnswers ==
    IF dev.ptr = LEP_I2C_STATUS_REG
    THEN { w \in StatusWords : TicksRemain \/ w % 2 = 0 }
    ELSE IF dev.ptr = LEP_I2C_DATA_LENGTH_REG THEN EchoWords(app.num_words)
    ELSE { 0 }

DevWordByte(w, i) == IF i = 0 THEN w \div Byte ELSE w % Byte

\* i2c_read16: entry up to i2c_prepare.
I2cRead16Enter ==
    /\ io.fn = "i2c_read16" /\ io.pc = "enter"
    /\ io' = [io EXCEPT !.pc = "loop", !.i = 0, !.data = <<0, 0>>]
    /\ bus' = i2c_prepare(I2C_READ_DIR, 2)
    /\ \E w \in DevAnswers : dev' = [dev EXCEPT !.word = w]
    /\ obs' = ObsPrepared(obs, bus')
    /\ UNCHANGED <<_millis, last_flir_error, app, wb, dl, rg, data_words>>

\* *data = (uint16_t)(separated_bytes[0] << 8) | separated_bytes[1]
JoinBytes_low_first(separated_bytes) ==
    BitOr(U16(ShiftLeft(separated_bytes[2], 8)), separated_bytes[1])

JoinBytes(separated_bytes) ==
    BitOr(U16(ShiftLeft(separated_bytes[1], 8)), separated_bytes[2])

\* i2c_read16: one pass of the for loop; the join after the last pass.
I2cRead16Byte ==
    /\ io.fn = "i2c_read16" /\ io.pc = "loop"
    /\ \E arrived \in WaitOutcomes :
        IF arrived
        THEN /\ bus' = i2c_get_data(bus)
             /\ dev' = DevRead(dev, bus')
             /\ LET bytes == [io.data EXCEPT ![io.i + 1] = DevWordByte(dev.word, io.i)]
                    next == [io EXCEPT !.i = U8(@ + 1), !.data = bytes]
                IN  io' = IF next.i < 2 THEN next
                          ELSE IoReturn([next EXCEPT !.word = JoinBytes(bytes)], TRUE)
             /\ obs' = ObsBus(obs)
             /\ UNCHANGED _millis
        ELSE /\ WaitTimedOut
             /\ io' = IoReturn(io, FALSE)
             /\ obs' = ObsStray(ObsBus(obs), I2C_TIMEOUT + 1)
             /\ UNCHANGED <<bus, dev>>
    /\ UNCHANGED <<last_flir_error, app, wb, dl, rg, data_words>>

\* i2c_read16_array: entry up to the first test of the for loop.
I2cRead16ArrayEnter ==
    /\ io.fn = "i2c_read16_array" /\ io.pc = "enter"
    /\ LET next == [io EXCEPT !.pc = "loop", !.i = 0, !.high = 0, !.k = 0,
                              !.high_byte = TRUE]
       IN  io' = IF next.i < 2 * io.num_words THEN next ELSE IoReturn(next, TRUE)
    /\ bus' = i2c_prepare(I2C_READ_DIR, 2 * io.num_words)
    /\ \E b \in DataBlocks : dev' = [dev EXCEPT !.block = b]
    /\ obs' = [ObsPrepared(obs, bus') EXCEPT !.dataRead = TRUE,
                                             !.ptrAtData = dev.ptr]
    /\ UNCHANGED <<_millis, last_flir_error, app, wb, dl, rg, data_words>>

\* i2c_read16_array: one pass of the for loop and the test that follows it.
\* The counter i is a uint8_t and is compared with the int 2 * num_words; a
\* store past the caller's num_words slots is undefined behaviour, after which
\* the call is not followed further.
I2cRead16ArrayByte ==
    /\ io.fn = "i2c_read16_array" /\ io.pc = "loop"
    /\ \E arrived \in WaitOutcomes :
        IF arrived
        THEN /\ bus' = i2c_get_data(bus)
             /\ dev' = DevRead(dev, bus')
             /\ LET byte == DevByte(dev.block, bus.count)
                    word == U16(BitOr(ShiftLeft(io.high, 8), byte))
                    inside == io.k < Len(data_words)
                    next == IF io.high_byte
                            THEN [io EXCEPT !.high = byte, !.high_byte = FALSE,
                                            !.i = U8(@ + 1)]
                            ELSE [io EXCEPT !.k = @ + 1, !.high_byte = TRUE,
                                            !.i = U8(@ + 1)]
                IN  /\ data_words' =
                          IF ~io.high_byte /\ inside
                          THEN [data_words EXCEPT ![io.k + 1] = word]
                          ELSE data_words
                    /\ io' = IF ~io.high_byte /\ ~inside
                             THEN [next EXCEPT !.pc = "undefined"]
                             ELSE IF next.i < 2 * io.num_words THEN next
                             ELSE IoReturn(next, TRUE)
                    /\ obs' = [ObsBus(obs) EXCEPT
                                  !.supplied = @ + 1,
                                  !.overrun = @ \/ (~io.high_byte /\ ~inside)]
             /\ UNCHANGED _millis
        ELSE /\ WaitTimedOut
             /\ io' = IoReturn(io, FALSE)
             /\ obs' = ObsStray(ObsBus(obs), I2C_TIMEOUT + 1)
             /\ UNCHANGED <<bus, dev, data_words>>
    /\ UNCHANGED <<last_flir_error, app, wb, dl, rg>>

(***************************************************************************)
(* Register access of flir.c.                                              *)
(***************************************************************************)
IoCall(fn) == [IoIdle EXCEPT !.fn = fn, !.pc = "enter"]

RgReturn(f, r) == [f EXCEPT !.pc = "done", !.ret = r]

\* read_register: the call of i2c_write16.
ReadRegisterEnter ==
    /\ rg.fn = "read_register" /\ rg.pc = "enter"
    /\ io' = [IoCall("i2c_write16") EXCEPT !.word = rg.reg_address]
    /\ rg' = [rg EXCEPT !.pc = "i2c_write16"]
    /\ obs' = ObsNewRegister(obs)
    /\ UNCHANGED <<_millis, last_flir_error, app, wb, dl, bus, data_words, dev>>

\* As ReadRegisterPointed, but the result of i2c_write16 is not looked at.
ReadRegisterPointed_reading_anyway ==
    /\ rg.fn = "read_register" /\ rg.pc = "i2c_write16" /\ io.pc = "done"
    /\ rg' = [rg EXCEPT !.pc = "i2c_read16"]
    /\ io' = IoCall("i2c_read16")
    /\ obs' = [obs EXCEPT !.ptrFailed = ~io.ret]
    /\ UNCHANGED <<_millis, last_flir_error, app, wb, dl, bus, data_words, dev>>

\* read_register: i2c_write16 returned; on success the call of i2c_read16.
ReadRegisterPointed ==
    /\ rg.fn = "read_register" /\ rg.pc = "i2c_write16" /\ io.pc = "done"
    /\ IF ~io.ret
       THEN /\ rg' = RgReturn(rg, FALSE)
            /\ io' = IoIdle
       ELSE /\ rg' = [rg EXCEPT !.pc = "i2c_read16"]
            /\ io' = IoCall("i2c_read16")
    /\ obs' = [obs EXCEPT !.ptrFailed = ~io.ret]
    /\ UNCHANGED <<_millis, last_flir_error, app, wb, dl, bus, data_words, dev>>

\* read_register: return i2c_read16(...), *value written on success only.
ReadRegisterReturn ==
    /\ rg.fn = "read_register" /\ rg.pc = "i2c_read16" /\ io.pc = "done"
    /\ rg' = RgReturn([rg EXCEPT !.value = IF io.ret THEN io.word ELSE @], io.ret)
    /\ io' = IoIdle
    /\ UNCHANGED <<_millis, last_flir_error, app, wb, dl, bus, data_words, dev, obs>>

\* write_register: temp_buf = {reg_address, value}, the call of i2c_write16_array.
WriteRegisterEnter ==
    /\ rg.fn = "write_register" /\ rg.pc = "enter"
    /\ io' = [IoCall("i2c_write16_array") EXCEPT
                 !.data = <<rg.reg_address, rg.value>>, !.num_words = 2]
    /\ rg' = [rg EXCEPT !.pc = "i2c_write16_array"]
    /\ obs' = ObsNewRegister(obs)
    /\ UNCHANGED <<_millis, last_flir_error, app, wb, dl, bus, data_words, dev>>

WriteRegisterReturn ==
    /\ rg.fn = "write_register" /\ rg.pc = "i2c_write16_array" /\ io.pc = "done"
    /\ rg' = RgReturn(rg, io.ret)
    /\ io' = IoIdle
    /\ UNCHANGED <<_millis, last_flir_error, app, wb, dl, bus, data_words, dev, obs>>

\* read_data_register: point to the data length register.
ReadDataRegisterEnter ==
    /\ rg.fn = "read_data_register" /\ rg.pc = "enter"
    /\ io' = [IoCall("i2c_write16") EXCEPT !.word = LEP_I2C_DATA_LENGTH_REG]
    /\ rg' = [rg EXCEPT !.pc = "i2c_write16"]
    /\ obs' = ObsNewRegister(obs)
    /\ UNCHANGED <<_millis, last_flir_error, app, wb, dl, bus, data_words, dev>>

\* read_data_register: num_bytes = 0 and the call of i2c_read16.
ReadDataRegisterPointed ==
    /\ rg.fn = "read_data_register" /\ rg.pc = "i2c_write16" /\ io.pc = "done"
    /\ IF ~io.ret
       THEN /\ rg' = RgReturn(rg, FALSE)
            /\ io' = IoIdle
       ELSE /\ rg' = [rg EXCEPT !.pc = "i2c_read16", !.num_bytes = 0]
            /\ io' = IoCall("i2c_read16")
    /\ UNCHANGED <<_millis, last_flir_error, app, wb, dl, bus, data_words, dev, obs>>

\* As LengthAccepted, but without the comparison with the request.
LengthAccepted_nonzero_only(max_length, num_bytes) ==
    ~(0 = num_bytes)

\* The two error checks of read_data_register on the length it read.
LengthAccepted(max_length, num_bytes) ==
    /\ ~(0 = num_bytes)
    /\ ~((max_length * 2) # num_bytes)

\* read_data_register: the length was read; the checks; the call of
\* i2c_read16_array.
ReadDataRegisterLength ==
    /\ rg.fn = "read_data_register" /\ rg.pc = "i2c_read16" /\ io.pc = "done"
    /\ IF ~io.ret
       THEN /\ rg' = RgReturn(rg, FALSE)
            /\ io' = IoIdle
            /\ obs' = obs
       ELSE /\ obs' = [obs EXCEPT !.echo = dev.word, !.echoSeen = TRUE]
            /\ IF LengthAccepted(rg.max_length, io.word)
               THEN /\ rg' = [rg EXCEPT !.pc = "i2c_read16_array",
                                        !.num_bytes = io.word]
                    /\ io' = [IoCall("i2c_read16_array") EXCEPT
                                 !.num_words = rg.max_length]
               ELSE /\ rg' = RgReturn([rg EXCEPT !.num_bytes = io.word], FALSE)
                    /\ io' = IoIdle
    /\ UNCHANGED <<_millis, last_flir_error, app, wb, dl, bus, data_words, dev>>

ReadDataRegisterReturn ==
    /\ rg.fn = "read_data_register" /\ rg.pc = "i2c_read16_array" /\ io.pc = "done"
    /\ rg' = RgReturn(rg, io.ret)
    /\ io' = IoIdle
    /\ UNCHANGED <<_millis, last_flir_error, app, wb, dl, bus, data_words, dev, obs>>

(***************************************************************************)
(* write_command_register, from its definition in flir.c: up to three      *)
(* buffered write transactions (i2c_begin_transmission, i2c_write16 of     *)
(* each word, i2c_end_transmission), each ending in a status.              *)
(***************************************************************************)
RECURSIVE WordBytes(_)
WordBytes(words) ==
    IF words = <<>> THEN <<>>
    ELSE <<Head(words) \div Byte, Head(words) % Byte>> \o WordBytes(Tail(words))

Transmission(words) ==
    [dir |-> I2C_WRITE_DIR, nbytes |-> U8(2 * Len(words)),
     sent |-> WordBytes(words), count |-> 2 * Len(words), ops |-> <<>>]

DevTransmitted(d, words) ==
    [d EXCEPT !.ptr = U16(words[1] + 2 * (Len(words) - 1))]

\* As PayloadAddress, but 16 words already go to the block data buffer.
PayloadAddress_below_limit(num_words) ==
    IF num_words < DirectSlots THEN LEP_I2C_DATA_0_REG ELSE LEP_I2C_DATA_BUFFER

\* reg_address = num_words <= 16 ? LEP_I2C_DATA_0_REG : LEP_I2C_DATA_BUFFER
PayloadAddress(num_words) ==
    IF num_words <= DirectSlots THEN LEP_I2C_DATA_0_REG ELSE LEP_I2C_DATA_BUFFER

\* if (data_words && num_words): the data length transaction.
WriteCommandRegisterLength ==
    /\ rg.fn = "write_command_register" /\ rg.pc = "enter"
    /\ IF rg.max_length # 0
       THEN \E status \in EndStatus :
            IF status # 0
            THEN /\ rg' = RgReturn([rg EXCEPT !.status = status], TRUE)
                 /\ obs' = ObsBus(obs)
                 /\ UNCHANGED <<bus, dev>>
            ELSE /\ rg' = [rg EXCEPT !.pc = "payload", !.status = status]
                 /\ bus' = Transmission(<<LEP_I2C_DATA_LENGTH_REG, rg.max_length>>)
                 /\ dev' = DevTransmitted(dev, <<LEP_I2C_DATA_LENGTH_REG, rg.max_length>>)
                 /\ obs' = ObsTransmitted(obs, bus')
       ELSE /\ rg' = [rg EXCEPT !.pc = "command"]
            /\ UNCHANGED <<bus, dev, obs>>
    /\ UNCHANGED <<_millis, last_flir_error, app, wb, dl, io, data_words>>

\* The payload transaction: reg_address, then every data word.
WriteCommandRegisterPayload ==
    /\ rg.fn = "write_command_register" /\ rg.pc = "payload"
    /\ LET reg_address == PayloadAddress(rg.max_length)
           words == <<reg_address>> \o SubSeq(data_words, 1, rg.max_length)
       IN  \E status \in EndStatus :
           IF status # 0
           THEN /\ rg' = RgReturn([rg EXCEPT !.status = status,
                                             !.reg_address = reg_address], TRUE)
                /\ obs' = ObsBus(obs)
                /\ UNCHANGED <<bus, dev>>
           ELSE /\ rg' = [rg EXCEPT !.pc = "command", !.status = status,
                                    !.reg_address = reg_address]
                /\ bus' = Transmission(words)
                /\ dev' = DevTransmitted(dev, words)
                /\ obs' = [ObsTransmitted(obs, bus') EXCEPT
                              !.payloadSent = TRUE, !.payloadAddr = Pointer(bus')]
    /\ UNCHANGED <<_millis, last_flir_error, app, wb, dl, io, data_words>>

\* The command transaction; its status is the return value.
WriteCommandRegisterCommand ==
    /\ rg.fn = "write_command_register" /\ rg.pc = "command"
    /\ \E status \in EndStatus :
          /\ rg' = RgReturn([rg EXCEPT !.status = status], status # 0)
          /\ IF status = 0
             THEN /\ bus' = Transmission(<<LEP_I2C_COMMAND_REG, rg.value>>)
                  /\ dev' = DevTransmitted(dev, <<LEP_I2C_COMMAND_REG, rg.value>>)
                  /\ obs' = ObsTransmitted(obs, bus')
             ELSE /\ obs' = ObsBus(obs)
                  /\ UNCHANGED <<bus, dev>>
    /\ UNCHANGED <<_millis, last_flir_error, app, wb, dl, io, data_words>>

(***************************************************************************)
(* wait_busy_bit, flir_millis, flir_delay / delay.                         *)
(***************************************************************************)
\* As Busy, but any bit set in the status word counts.
Busy_any_flag(status) == status # 0

\* As Busy, but a non-zero error code counts as busy too.
Busy_or_error(status) ==
    \/ BitAnd(status, LEP_I2C_STATUS_BUSY_BIT_MASK) # 0
    \/ BitAnd(status, LEP_I2C_STATUS_ERROR_CODE_BIT_MASK) # 0

Busy(status) == BitAnd(status, LEP_I2C_STATUS_BUSY_BIT_MASK) # 0

\* As ErrorCode, but the field is not shifted down.
ErrorCode_unshifted(status) ==
    U8(BitAnd(status, LEP_I2C_STATUS_ERROR_CODE_BIT_MASK))

\* (uint8_t)((status & ERROR_CODE_BIT_MASK) >> ERROR_CODE_BIT_SHIFT)
ErrorCode(status) ==
    U8(ShiftRight(BitAnd(status, LEP_I2C_STATUS_ERROR_CODE_BIT_MASK),
                  LEP_I2C_STATUS_ERROR_CODE_BIT_SHIFT))

\* static uint32_t flir_millis() { return millis(); }
flir_millis == Low32(millis)

\* uint32_t end_time = flir_millis() + (uint32_t) timeout
EndTime(now, timeout) == AddWide(now, timeout)

RgCall(fn) == [RgIdle EXCEPT !.fn = fn, !.pc = "enter"]

WbCall(timeout) == [WbIdle EXCEPT !.pc = "enter", !.timeout = timeout]

WbReturn(f, r) == [f EXCEPT !.pc = "done", !.ret = r]

\* The STATUS word the camera sent with the last read had BUSY set.
DevBusy == dev.word % 2 = 1

\* What is observed of one run of wait_busy_bit starts afresh.
ObsNewWait(o) ==
    [o EXCEPT !.elapsed = 0, !.stray = FALSE, !.statusReads = 0,
              !.sleeps = 0, !.clockReads = 0, !.allBusy = TRUE,
              !.firstClear = FALSE, !.readFailed = FALSE, !.failReads = 0,
              !.failSleeps = 0]

\* A STATUS read of wait_busy_bit returned false: the reads and sleeps so far.
ObsReadFailed(o) ==
    [o EXCEPT !.allBusy = FALSE, !.readFailed = TRUE,
              !.failReads = o.statusReads, !.failSleeps = o.sleeps]

ObsWaitOk(o) == [o EXCEPT !.hadOk = TRUE, !.okStatus = dev.word]

\* Entry: the first read_register(LEP_I2C_STATUS_REG, &status).
WaitBusyBitEnter ==
    /\ wb.pc = "enter"
    /\ rg' = [RgCall("read_register") EXCEPT !.reg_address = LEP_I2C_STATUS_REG]
    /\ wb' = [wb EXCEPT !.pc = "first_read"]
    /\ obs' = [ObsNewWait(obs) EXCEPT !.statusReads = 1]
    /\ UNCHANGED <<_millis, last_flir_error, app, dl, io, bus, data_words, dev>>

\* Lines 109-120: the first read returned.
WaitBusyBitFirst ==
    /\ wb.pc = "first_read" /\ rg.pc = "done"
    /\ rg' = RgIdle
    /\ IF ~rg.ret
       THEN /\ wb' = WbReturn(wb, FALSE)
            /\ obs' = ObsReadFailed(obs)
            /\ UNCHANGED last_flir_error
       ELSE IF ~Busy(rg.value)
       THEN /\ wb' = WbReturn([wb EXCEPT !.status = rg.value], TRUE)
            /\ last_flir_error' = ErrorCode(rg.value)
            /\ obs' = [ObsWaitOk(obs) EXCEPT !.allBusy = @ /\ DevBusy,
                                             !.firstClear = ~DevBusy]
       ELSE /\ wb' = [wb EXCEPT !.status = rg.value, !.pc = "deadline"]
            /\ obs' = [obs EXCEPT !.allBusy = @ /\ DevBusy,
                                  !.firstClear = ~DevBusy]
            /\ UNCHANGED last_flir_error
    /\ UNCHANGED <<_millis, app, dl, io, bus, data_words, dev>>

\* Line 123.
WaitBusyBitDeadline ==
    /\ wb.pc = "deadline"
    /\ wb' = [wb EXCEPT !.pc = "loop", !.end_time = EndTime(flir_millis, wb.timeout)]
    /\ obs' = [obs EXCEPT !.clockReads = @ + 1]
    /\ UNCHANGED <<_millis, last_flir_error, app, dl, rg, io, bus, data_words, dev>>

\* The loop condition of line 126.
KeepWaiting(status, now, end_time) == Busy(status) /\ LessWide(now, end_time)

\* Line 126: the while test; flir_millis() is called only if BUSY is set.
WaitBusyBitLoop ==
    /\ wb.pc = "loop"
    /\ wb' = [wb EXCEPT !.pc = IF KeepWaiting(wb.status, flir_millis, wb.end_time)
                               THEN "flir_delay" ELSE "final"]
    /\ obs' = [obs EXCEPT !.clockReads = IF Busy(wb.status) THEN @ + 1 ELSE @]
    /\ UNCHANGED <<_millis, last_flir_error, app, dl, rg, io, bus, data_words, dev>>

\* flir_delay(1) -> delay(1): const uint64_t until = millis() + duration.
DelayEnter ==
    /\ wb.pc = "flir_delay"
    /\ dl' = [until |-> AddWide(millis, 1)]
    /\ wb' = [wb EXCEPT !.pc = "delay"]
    /\ obs' = [obs EXCEPT !.sleeps = @ + 1]
    /\ UNCHANGED <<_millis, last_flir_error, app, rg, io, bus, data_words, dev>>

\* delay: while (millis() < until); falls through, and line 130 calls
\* read_register again.
DelayReturn ==
    /\ wb.pc = "delay"
    /\ ~LessWide(millis, dl.until)
    /\ dl' = DlIdle
    /\ wb' = [wb EXCEPT !.pc = "loop_read"]
    /\ rg' = [RgCall("read_register") EXCEPT !.reg_address = LEP_I2C_STATUS_REG]
    /\ obs' = [obs EXCEPT !.statusReads = @ + 1]
    /\ UNCHANGED <<_millis, last_flir_error, app, io, bus, data_words, dev>>

\* As WaitBusyBitPolled, but a failed read is taken for one that showed BUSY
\* set: the loop goes on.
WaitBusyBitPolled_ignoring_failure ==
    /\ wb.pc = "loop_read" /\ rg.pc = "done"
    /\ rg' = RgIdle
    /\ IF ~rg.ret
       THEN /\ wb' = [wb EXCEPT !.pc = "loop"]
            /\ obs' = ObsReadFailed(obs)
       ELSE /\ wb' = [wb EXCEPT !.status = rg.value, !.pc = "loop"]
            /\ obs' = [obs EXCEPT !.allBusy = @ /\ DevBusy]
    /\ UNCHANGED <<_millis, last_flir_error, app, dl, io, bus, data_words, dev>>

\* Lines 130-135: the read inside the loop returned.
WaitBusyBitPolled ==
    /\ wb.pc = "loop_read" /\ rg.pc = "done"
    /\ rg' = RgIdle
    /\ IF ~rg.ret
       THEN /\ wb' = WbReturn(wb, FALSE)
            /\ obs' = ObsReadFailed(obs)
       ELSE /\ wb' = [wb EXCEPT !.status = rg.value, !.pc = "loop"]
            /\ obs' = [obs EXCEPT !.allBusy = @ /\ DevBusy]
    /\ UNCHANGED <<_millis, last_flir_error, app, dl, io, bus, data_words, dev>>

\* Lines 137-148.
WaitBusyBitFinal ==
    /\ wb.pc = "final"
    /\ IF ~Busy(wb.status)
       THEN /\ last_flir_error' = ErrorCode(wb.status)
            /\ wb' = WbReturn(wb, TRUE)
            /\ obs' = ObsWaitOk(obs)
       ELSE /\ wb' = WbReturn(wb, FALSE)
            /\ UNCHANGED <<last_flir_error, obs>>
    /\ UNCHANGED <<_millis, app, dl, rg, io, bus, data_words, dev>>

(***************************************************************************)
(* The caller and the entry points of flir.c.                              *)
(***************************************************************************)
ObsNewCall(o) ==
    [ObsCall EXCEPT !.ticks = o.ticks, !.hadOk = o.hadOk,
                    !.okStatus = o.okStatus]

ObsStep(o, name, ok) ==
    [IF name = "wait" THEN ObsNewWait(o) ELSE o
       EXCEPT !.steps = Append(@, <<name, ok>>), !.failed = @ \/ ~ok]

AppReturn(f, r) == [f EXCEPT !.pc = "done", !.ret = r]

CanCall == app.pc = "done"

\* Words of a set payload.
PayloadWord(k) == U16(4660 + 257 * k)

\* The caller calls wait_busy_bit(timeout).
CallWaitBusyBit(timeout) ==
    /\ CanCall
    /\ app' = [AppIdle EXCEPT !.fn = "wait_busy_bit", !.pc = "wait",
                              !.timeout = timeout]
    /\ data_words' = <<>>
    /\ wb' = WbCall(timeout)
    /\ obs' = ObsNewCall(obs)
    /\ UNCHANGED <<_millis, last_flir_error, dl, rg, io, bus, dev>>

WaitBusyBitReturned ==
    /\ app.fn = "wait_busy_bit" /\ app.pc = "wait" /\ wb.pc = "done"
    /\ app' = AppReturn(app, wb.ret)
    /\ wb' = WbIdle
    /\ obs' = ObsStep(obs, "wait", wb.ret)
    /\ UNCHANGED <<_millis, last_flir_error, dl, rg, io, bus, data_words, dev>>

\* The caller calls get_last_flir_result().
get_last_flir_result ==
    /\ app.pc = "done" /\ app.fn # "get_last_flir_result"
    /\ app' = [AppIdle EXCEPT !.fn = "get_last_flir_result",
                              !.value = last_flir_error]
    /\ UNCHANGED <<_millis, last_flir_error, wb, dl, rg, io, bus, data_words, dev, obs>>

\* The caller calls get_flir_command with a buffer of num_words words;
\* line 23 calls wait_busy_bit.
CallGetFlirCommand(cmd_code, num_words, fill) ==
    /\ CanCall
    /\ app' = [AppIdle EXCEPT !.fn = "get_flir_command", !.pc = "wait1",
                              !.cmd_code = cmd_code, !.num_words = num_words]
    /\ data_words' = [k \in 1..num_words |-> fill]
    /\ wb' = WbCall(FLIR_BUSY_TIMEOUT)
    /\ obs' = [ObsNewCall(obs) EXCEPT !.buf0 = data_words']
    /\ UNCHANGED <<_millis, last_flir_error, dl, rg, io, bus, dev>>

\* As GetFlirCommandWaited, but the result of the wait is not looked at.
GetFlirCommandWaited_ignoring_result ==
    /\ app.fn = "get_flir_command" /\ app.pc = "wait1" /\ wb.pc = "done"
    /\ wb' = WbIdle
    /\ obs' = ObsStep(obs, "wait", wb.ret)
    /\ app' = [app EXCEPT !.pc = "write"]
    /\ rg' = [RgCall("write_register") EXCEPT
                 !.reg_address = LEP_I2C_COMMAND_REG,
                 !.value = app.cmd_code]
    /\ UNCHANGED <<_millis, last_flir_error, dl, io, bus, data_words, dev>>

\* Lines 23-27.
GetFlirCommandWaited ==
    /\ app.fn = "get_flir_command" /\ app.pc = "wait1" /\ wb.pc = "done"
    /\ wb' = WbIdle
    /\ obs' = ObsStep(obs, "wait", wb.ret)
    /\ IF wb.ret
       THEN /\ app' = [app EXCEPT !.pc = "write"]
            /\ rg' = [RgCall("write_register") EXCEPT
                         !.reg_address = LEP_I2C_COMMAND_REG,
                         !.value = app.cmd_code]
       ELSE /\ app' = AppReturn(app, FALSE)
            /\ UNCHANGED rg
    /\ UNCHANGED <<_millis, last_flir_error, dl, io, bus, data_words, dev>>

\* Lines 27-30.
GetFlirCommandWritten ==
    /\ app.fn = "get_flir_command" /\ app.pc = "write" /\ rg.pc = "done"
    /\ rg' = RgIdle
    /\ obs' = ObsStep(obs, "write", rg.ret)
    /\ IF rg.ret
       THEN /\ app' = [app EXCEPT !.pc = "wait2"]
            /\ wb' = WbCall(FLIR_BUSY_TIMEOUT)
       ELSE /\ app' = AppReturn(app, FALSE)
            /\ UNCHANGED wb
    /\ UNCHANGED <<_millis, last_flir_error, dl, io, bus, data_words, dev>>

\* Lines 30-33.
GetFlirCommandProcessed ==
    /\ app.fn = "get_flir_command" /\ app.pc = "wait2" /\ wb.pc = "done"
    /\ wb' = WbIdle
    /\ obs' = ObsStep(obs, "wait", wb.ret)
    /\ IF wb.ret
       THEN /\ app' = [app EXCEPT !.pc = "read"]
            /\ rg' = [RgCall("read_data_register") EXCEPT
                         !.max_length = app.num_words]
       ELSE /\ app' = AppReturn(app, FALSE)
            /\ UNCHANGED rg
    /\ UNCHANGED <<_millis, last_flir_error, dl, io, bus, data_words, dev>>

\* Lines 33-41.
GetFlirCommandRead ==
    /\ app.fn = "get_flir_command" /\ app.pc = "read" /\ rg.pc = "done"
    /\ rg' = RgIdle
    /\ obs' = ObsStep(obs, "read", rg.ret)
    /\ app' = AppReturn(app, rg.ret)
    /\ UNCHANGED <<_millis, last_flir_error, wb, dl, io, bus, data_words, dev>>

\* The caller calls set_flir_command with num_words payload words; line 61
\* calls wait_busy_bit.
CallSetFlirCommand(cmd_code, num_words) ==
    /\ CanCall
    /\ app' = [AppIdle EXCEPT !.fn = "set_flir_command", !.pc = "wait1",
                              !.cmd_code = cmd_code, !.num_words = num_words]
    /\ data_words' = [k \in 1..num_words |-> PayloadWord(k)]
    /\ wb' = WbCall(FLIR_BUSY_TIMEOUT)
    /\ obs' = [ObsNewCall(obs) EXCEPT !.buf0 = data_words']
    /\ UNCHANGED <<_millis, last_flir_error, dl, rg, io, bus, dev>>

\* Lines 61-65.
SetFlirCommandWaited ==
    /\ app.fn = "set_flir_command" /\ app.pc = "wait1" /\ wb.pc = "done"
    /\ wb' = WbIdle
    /\ obs' = ObsStep(obs, "wait", wb.ret)
    /\ IF wb.ret
       THEN /\ app' = [app EXCEPT !.pc = "write"]
            /\ rg' = [RgCall("write_command_register") EXCEPT
                         !.value = app.cmd_code,
                         !.max_length = app.num_words]
       ELSE /\ app' = AppReturn(app, FALSE)
            /\ UNCHANGED rg
    /\ UNCHANGED <<_millis, last_flir_error, dl, io, bus, data_words, dev>>

\* Lines 65-68: write_command_register(...) == 0.
SetFlirCommandWritten ==
    /\ app.fn = "set_flir_command" /\ app.pc = "write" /\ rg.pc = "done"
    /\ rg' = RgIdle
    /\ obs' = ObsStep(obs, "write", rg.status = 0)
    /\ IF rg.status = 0
       THEN /\ app' = [app EXCEPT !.pc = "wait2"]
            /\ wb' = WbCall(FLIR_BUSY_TIMEOUT)
       ELSE /\ app' = AppReturn(app, FALSE)
            /\ UNCHANGED wb
    /\ UNCHANGED <<_millis, last_flir_error, dl, io, bus, data_words, dev>>

\* As SetFlirCommandProcessed, but success is reported whatever the wait
\* returned.
SetFlirCommandProcessed_reporting_success ==
    /\ app.fn = "set_flir_command" /\ app.pc = "wait2" /\ wb.pc = "done"
    /\ wb' = WbIdle
    /\ obs' = ObsStep(obs, "wait", wb.ret)
    /\ app' = AppReturn(app, TRUE)
    /\ UNCHANGED <<_millis, last_flir_error, dl, rg, io, bus, data_words, dev>>

\* Lines 68-76.
SetFlirCommandProcessed ==
    /\ app.fn = "set_flir_command" /\ app.pc = "wait2" /\ wb.pc = "done"
    /\ wb' = WbIdle
    /\ obs' = ObsStep(obs, "wait", wb.ret)
    /\ app' = AppReturn(app, wb.ret)
    /\ UNCHANGED <<_millis, last_flir_error, dl, rg, io, bus, data_words, dev>>

Next ==
    \/ \E timeout \in 0..MaxTimeout : CallWaitBusyBit(timeout)
    \/ WaitBusyBitReturned
    \/ get_last_flir_result
    \/ \E cmd_code \in CmdCodes, num_words \in GetCounts, fill \in FillWords :
           CallGetFlirCommand(cmd_code, num_words, fill)
    \/ GetFlirCommandWaited
    \/ GetFlirCommandWritten
    \/ GetFlirCommandProcessed
    \/ GetFlirCommandRead
    \/ \E cmd_code \in CmdCodes, num_words \in SetCounts :
           CallSetFlirCommand(cmd_code, num_words)
    \/ SetFlirCommandWaited
    \/ SetFlirCommandWritten
    \/ SetFlirCommandProcessed
    \/ WaitBusyBitEnter
    \/ WaitBusyBitFirst
    \/ WaitBusyBitDeadline
    \/ WaitBusyBitLoop
    \/ DelayEnter
    \/ DelayReturn
    \/ WaitBusyBitPolled
    \/ WaitBusyBitFinal
    \/ ReadRegisterEnter
    \/ ReadRegisterPointed
    \/ ReadRegisterReturn
    \/ WriteRegisterEnter
    \/ WriteRegisterReturn
    \/ ReadDataRegisterEnter
    \/ ReadDataRegisterPointed
    \/ ReadDataRegisterLength
    \/ ReadDataRegisterReturn
    \/ WriteCommandRegisterLength
    \/ WriteCommandRegisterPayload
    \/ WriteCommandRegisterCommand
    \/ I2cWrite16Enter
    \/ I2cWrite16Byte
    \/ I2cWrite16ArrayEnter
    \/ I2cWrite16ArrayByte
    \/ I2cRead16Enter
    \/ I2cRead16Byte
    \/ I2cRead16ArrayEnter
    \/ I2cRead16ArrayByte
    \/ sys_tick_handler

Spec == Init /\ [][Next]_vars

(***************************************************************************)
(* command_code on its own: a caller holding a command id and a command    *)
(* type calls it, any number of times.                                     *)
(***************************************************************************)
CmdIds == { 0, 4, 252, 256, 2076, 3840, 4096, 65535 }
CmdTypes == { 0, 1, 2, 3, 4, 5, 65532, 65535 }

InitCC ==
    /\ _millis \in BootValues
    /\ last_flir_error = LEP_OK
    /\ \E cmd_id \in CmdIds, cmd_type \in CmdTypes :
           app = [AppIdle EXCEPT !.cmd_id = cmd_id, !.cmd_type = cmd_type]
    /\ wb = WbIdle
    /\ dl = DlIdle
    /\ rg = RgIdle
    /\ io = IoIdle
    /\ bus = BusIdle
    /\ data_words = <<>>
    /\ dev = [ptr |-> 0, word |-> 0, block |-> 0]
    /\ obs = ObsCall

CallCommandCode ==
    /\ app.pc = "done" /\ app.fn \in { "idle", "command_code" }
    /\ app' = [app EXCEPT !.fn = "command_code",
                          !.value = command_code(app.cmd_id, app.cmd_type)]
    /\ UNCHANGED <<_millis, last_flir_error, wb, dl, rg, io, bus, data_words, dev, obs>>

NextCC == CallCommandCode

SpecCC == InitCC /\ [][NextCC]_vars

(***************************************************************************)
(* The byte and word transport of utility.c on its own: a caller calls any *)
(* of the eight read/write functions.  Each poll of a controller flag is a *)
(* step (the flag is whatever the controller and the device make it), and  *)
(* so is each 32-bit half of a read of the 64-bit counter, between which   *)
(* the tick interrupt may fire.                                            *)
(***************************************************************************)
MaxBusTicks == 4
MaxDelay == 2

WriteFns == { "i2c_write", "i2c_write_array", "i2c_write16", "i2c_write16_array" }
ReadFns == { "i2c_read", "i2c_read_array", "i2c_read16", "i2c_read16_array" }

WordValues == { 0, 1, 255, 256, 4660, 32768, 43981, 65280, 65535 }
ByteValues == { 165 }
ByteCounts == { 0, 2 }
WordCounts == { 0, 1, 128 }

ArrayByte(k) == (37 * k + 11) % Byte

\* What the caller's output slots hold at the call.
FillWord == CHOOSE w \in FillWords : TRUE
FillByte == FillWord % Byte

\* The halves of the counter, whichever the build reads first.
ReadOrders == { "low", "high" }
HighHalf(v) == <<v[1], v[2]>>
LowHalf(v) == <<v[3], v[4]>>

\* The frame of a transport function with the locals of the wait it is in
\* (wait, until) and of the read of the clock it is in (half, order, now).
XferIdle ==
    [fn |-> "none", pc |-> "none", data |-> <<>>, word |-> 0,
     num_words |-> 0, num_bytes |-> 0, i |-> 0, high_byte |-> TRUE,
     high |-> 0, k |-> 0, wait |-> FALSE, until |-> <<0, 0, 0, 0>>,
     now |-> <<0, 0, 0, 0>>, half |-> <<0, 0>>, order |-> "low",
     after |-> "none", back |-> "none", duration |-> 0, ret |-> FALSE]

\* What is observed of the transport: ticks so far; of the wait for the
\* current byte, the ticks since it began and whether NACK was flagged; bytes
\* taken from the controller; the buffer at the call.
ObsXfer ==
    [ticks |-> 0, waited |-> 0, nackSeen |-> FALSE,
     supplied |-> 0, overrun |-> FALSE, buf0 |-> <<>>]

DevIdle == [ptr |-> 0, word |-> 0, block |-> 0]

InitBus ==
    /\ _millis \in BootValues
    /\ last_flir_error = LEP_OK
    /\ app = AppIdle
    /\ wb = WbIdle
    /\ dl = DlIdle
    /\ rg = RgIdle
    /\ io = XferIdle
    /\ bus = BusIdle
    /\ data_words = <<>>
    /\ dev = DevIdle
    /\ obs = ObsXfer

CanTransfer == io.pc \in { "none", "done" }

InTransfer == io.pc \notin { "none", "done", "undefined" }

ObsNewTransfer(o, buffer) ==
    [o EXCEPT !.waited = 0, !.nackSeen = FALSE, !.supplied = 0,
              !.overrun = FALSE, !.buf0 = buffer]

\* The caller's calls.
CallTransfer(frame, buffer) ==
    /\ CanTransfer
    /\ io' = [frame EXCEPT !.pc = "enter"]
    /\ data_words' = buffer
    /\ obs' = ObsNewTransfer(obs, buffer)
    /\ UNCHANGED <<_millis, last_flir_error, app, wb, dl, rg, bus, dev>>

CallI2cWrite(data) ==
    CallTransfer([XferIdle EXCEPT !.fn = "i2c_write", !.word = data], <<>>)

CallI2cWriteArray(num_bytes) ==
    CallTransfer([XferIdle EXCEPT !.fn = "i2c_write_array",
                                  !.num_bytes = num_bytes],
                 [k \in 1..num_bytes |-> ArrayByte(k)])

CallI2cWrite16(data) ==
    CallTransfer([XferIdle EXCEPT !.fn = "i2c_write16", !.word = data], <<>>)

CallI2cWrite16Array(num_words) ==
    CallTransfer([XferIdle EXCEPT !.fn = "i2c_write16_array",
                                  !.num_words = num_words],
                 [k \in 1..num_words |-> PayloadWord(k)])

CallI2cRead ==
    CallTransfer([XferIdle EXCEPT !.fn = "i2c_read"], << FillByte >>)

CallI2cReadArray(num_bytes) ==
    CallTransfer([XferIdle EXCEPT !.fn = "i2c_read_array",
                                  !.num_bytes = num_bytes],
                 [k \in 1..num_bytes |-> FillByte])

CallI2cRead16 ==
    CallTransfer([XferIdle EXCEPT !.fn = "i2c_read16"], << FillWord >>)

CallI2cRead16Array(num_words) ==
    CallTransfer([XferIdle EXCEPT !.fn = "i2c_read16_array",
                                  !.num_words = num_words],
                 [k \in 1..num_words |-> FillWord])

\* The tick interrupt during a transfer.  It is followed where the transfer
\* can tell it happened: before either load of a read of the clock.
TransferTick ==
    /\ io.pc \in { "millis_first", "millis_second" }
    /\ obs.ticks < MaxBusTicks
    /\ _millis' = AddWide(_millis, 1)
    /\ obs' = [obs EXCEPT !.ticks = @ + 1, !.waited = @ + 1]
    /\ UNCHANGED <<last_flir_error, app, wb, dl, rg, io, bus, data_words, dev>>

\* millis() is called; execution goes on at `after` when it has returned.
CallMillis(f, after) == [f EXCEPT !.pc = "millis_first", !.after = after]

\* millis(): return _millis, the first of the two 32-bit loads.
MillisFirstHalf ==
    /\ io.pc = "millis_first"
    /\ \E order \in ReadOrders :
          io' = [io EXCEPT !.pc = "millis_second", !.order = order,
                           !.half = IF order = "low" THEN LowHalf(_millis)
                                    ELSE HighHalf(_millis)]
    /\ UNCHANGED <<_millis, last_flir_error, app, wb, dl, rg, bus, data_words, dev, obs>>

\* millis(): the second load, and the value returned.
MillisSecondHalf ==
    /\ io.pc = "millis_second"
    /\ io' = [io EXCEPT !.pc = io.after,
                        !.now = IF io.order = "low"
                                THEN HighHalf(_millis) \o io.half
                                ELSE io.half \o LowHalf(_millis),
                        !.half = <<0, 0>>, !.order = "low", !.after = "none"]
    /\ UNCHANGED <<_millis, last_flir_error, app, wb, dl, rg, bus, data_words, dev, obs>>

\* The byte count a write function hands to i2c_prepare.
WriteDeclared(f) ==
    CASE f.fn = "i2c_write" -> 1
      [] f.fn = "i2c_write_array" -> f.num_bytes
      [] f.fn = "i2c_write16" -> 2
      [] f.fn = "i2c_write16_array" -> 2 * f.num_words

\* The number of passes of its sending loop: one byte (i2c_write), the
\* uint8_t num_bytes, for (i = 0; i < 2; i++), uint16_t num_bytes = 2 * num_words.
WritePasses(f) ==
    CASE f.fn = "i2c_write" -> 1
      [] f.fn = "i2c_write_array" -> U8(f.num_bytes)
      [] f.fn = "i2c_write16" -> 2
      [] f.fn = "i2c_write16_array" -> U16(2 * f.num_words)

\* uint8_t separated_bytes[2] = {(uint8_t) (data >> 8) & 0xFF, (uint8_t) data & 0xFF}
SeparateBytes(data) ==
    << BitAnd(U8(ShiftRight(data, 8)), 255), BitAnd(U8(data), 255) >>

\* The byte the pass sends.
WriteByte(f) ==
    CASE f.fn = "i2c_write" -> f.word
      [] f.fn = "i2c_write_array" -> data_words[f.i + 1]
      [] f.fn = "i2c_write16" -> f.data[f.i + 1]
      [] f.fn = "i2c_write16_array" ->
            IF f.high_byte
            THEN BitAnd(U8(ShiftRight(data_words[f.k + 1], 8)), 255)
            ELSE U8(BitAnd(data_words[f.k + 1], 255))

\* Return of a transport function: its locals are gone.
XferReturn(f, r) ==
    [XferIdle EXCEPT !.fn = f.fn, !.pc = "done", !.ret = r, !.word = f.word,
                     !.num_words = f.num_words]

\* The test of the sending loop: another pass, which begins with wait = true,
\* or return true.
BeginPass(f) ==
    IF f.num_bytes > 0
    THEN [f EXCEPT !.num_bytes = @ - 1, !.wait = TRUE, !.pc = "txis"]
    ELSE XferReturn(f, TRUE)

\* A wait for the next byte begins.
ObsNewByte(o) == [o EXCEPT !.waited = 0, !.nackSeen = FALSE]

\* A write function up to the first test of its loop.
WriteEnter ==
    /\ io.fn \in WriteFns /\ io.pc = "enter"
    /\ bus' = i2c_prepare(I2C_WRITE_DIR, WriteDeclared(io))
    /\ io' = BeginPass([io EXCEPT !.num_bytes = WritePasses(io), !.i = 0,
                                  !.k = 0, !.high_byte = TRUE,
                                  !.data = IF io.fn = "i2c_write16"
                                           THEN SeparateBytes(io.word) ELSE <<>>])
    /\ dev' = DevIdle
    /\ obs' = ObsNewByte(obs)
    /\ UNCHANGED <<_millis, last_flir_error, app, wb, dl, rg, data_words>>

\* while (wait): if (i2c_transmit_int_status(I2C1)) wait = false; then the
\* call of wait_for_ack(I2C_TIMEOUT), which begins by reading the clock.
TransmitStatus ==
    /\ io.fn \in WriteFns /\ io.pc = "txis"
    /\ \E txis \in BOOLEAN :
          io' = CallMillis([io EXCEPT !.wait = IF txis THEN FALSE ELSE @],
                           "ack_until")
    /\ UNCHANGED <<_millis, last_flir_error, app, wb, dl, rg, bus, data_words, dev, obs>>

\* wait_for_ack: const uint64_t until = millis() + timeout.
WaitForAckUntil ==
    /\ io.pc = "ack_until"
    /\ io' = [io EXCEPT !.until = AddWide(io.now, I2C_TIMEOUT),
                        !.now = <<0, 0, 0, 0>>, !.pc = "ack_nack"]
    /\ UNCHANGED <<_millis, last_flir_error, app, wb, dl, rg, bus, data_words, dev, obs>>

\* wait_for_ack: while (i2c_nack(I2C1)); without NACK it returns true, to
\* the test of while (wait).
WaitForAckNack ==
    /\ io.pc = "ack_nack"
    /\ \E nack \in BOOLEAN :
          IF nack
          THEN /\ io' = CallMillis(io, "ack_check")
               /\ obs' = [obs EXCEPT !.nackSeen = TRUE]
          ELSE /\ io' = [io EXCEPT !.pc = IF io.wait THEN "txis" ELSE "send",
                                    !.until = <<0, 0, 0, 0>>]
               /\ obs' = obs
    /\ UNCHANGED <<_millis, last_flir_error, app, wb, dl, rg, bus, data_words, dev>>

\* wait_for_ack: if (millis() > until) return false, and so does the write
\* function.
WaitForAckCheck ==
    /\ io.pc = "ack_check"
    /\ io' = IF LessWide(io.until, io.now) THEN XferReturn(io, FALSE)
             ELSE [io EXCEPT !.pc = "ack_nack", !.now = <<0, 0, 0, 0>>]
    /\ UNCHANGED <<_millis, last_flir_error, app, wb, dl, rg, bus, data_words, dev, obs>>

\* i2c_send_data of the pass's byte, and the next test of the loop.
WriteSend ==
    /\ io.fn \in WriteFns /\ io.pc = "send"
    /\ bus' = i2c_send_data(bus, WriteByte(io))
    /\ io' = BeginPass([io EXCEPT !.i = @ + 1, !.high_byte = ~@,
                                  !.k = IF io.high_byte THEN @ ELSE @ + 1])
    /\ obs' = ObsNewByte(obs)
    /\ UNCHANGED <<_millis, last_flir_error, app, wb, dl, rg, data_words, dev>>

\* The byte count a read function hands to i2c_prepare.
ReadDeclared(f) ==
    CASE f.fn = "i2c_read" -> 1
      [] f.fn = "i2c_read_array" -> f.num_bytes
      [] f.fn = "i2c_read16" -> 2
      [] f.fn = "i2c_read16_array" -> 2 * f.num_words

\* The test of its receiving loop (i2c_read has one pass); i is a uint8_t.
ReadMore(f) ==
    CASE f.fn = "i2c_read" -> f.i < 1
      [] f.fn = "i2c_read_array" -> f.i < U8(f.num_bytes)
      [] f.fn = "i2c_read16" -> f.i < 2
      [] f.fn = "i2c_read16_array" -> f.i < 2 * f.num_words

\* Another pass, which begins with wait_for_empty_data_reg(I2C_TIMEOUT)
\* reading the clock, or return true.
BeginRead(f) ==
    IF ReadMore(f) THEN CallMillis(f, "rx_until") ELSE XferReturn(f, TRUE)

\* A read function up to the first test of its loop.
ReadEnter ==
    /\ io.fn \in ReadFns /\ io.pc = "enter"
    /\ bus' = i2c_prepare(I2C_READ_DIR, ReadDeclared(io))
    /\ io' = BeginRead([io EXCEPT !.i = 0, !.k = 0, !.high = 0,
                                  !.high_byte = TRUE,
                                  !.data = IF io.fn = "i2c_read16"
                                           THEN <<0, 0>> ELSE <<>>])
    /\ IF io.fn = "i2c_read16"
       THEN \E w \in WordValues : dev' = [DevIdle EXCEPT !.word = w]
       ELSE \E b \in DataBlocks : dev' = [DevIdle EXCEPT !.block = b]
    /\ obs' = ObsNewByte(obs)
    /\ UNCHANGED <<_millis, last_flir_error, app, wb, dl, rg, data_words>>

\* wait_for_empty_data_reg: const uint64_t until = millis() + timeout.
WaitForDataUntil ==
    /\ io.pc = "rx_until"
    /\ io' = [io EXCEPT !.until = AddWide(io.now, I2C_TIMEOUT),
                        !.now = <<0, 0, 0, 0>>, !.pc = "rx_poll"]
    /\ UNCHANGED <<_millis, last_flir_error, app, wb, dl, rg, bus, data_words, dev, obs>>

\* wait_for_empty_data_reg: while (i2c_received_data(I2C1) == 0).
WaitForDataPoll ==
    /\ io.pc = "rx_poll"
    /\ \E received \in BOOLEAN :
          io' = IF received
                THEN [io EXCEPT !.pc = "get", !.until = <<0, 0, 0, 0>>]
                ELSE CallMillis(io, "rx_check")
    /\ UNCHANGED <<_millis, last_flir_error, app, wb, dl, rg, bus, data_words, dev, obs>>

\* wait_for_empty_data_reg: if (millis() > until) return false, and so does
\* the read function.
WaitForDataCheck ==
    /\ io.pc = "rx_check"
    /\ io' = IF LessWide(io.until, io.now) THEN XferReturn(io, FALSE)
             ELSE [io EXCEPT !.pc = "rx_poll", !.now = <<0, 0, 0, 0>>]
    /\ UNCHANGED <<_millis, last_flir_error, app, wb, dl, rg, bus, data_words, dev, obs>>

\* The byte the device supplies: to i2c_read16 the two bytes i2c_write16
\* puts on the bus for the device's word, in that order; to the others the
\* bytes of its block.
FedByte(fn, d, j) ==
    IF fn = "i2c_read16" THEN SeparateBytes(d.word)[j + 1]
    ELSE DevByte(d.block, j)

\* i2c_get_data and what the pass does with the byte, then the next test of
\* the loop; i2c_read16 stores the joined word after its loop.  A store past
\* the caller's slots is undefined behaviour, after which the call is not
\* followed further.
ReadGet ==
    /\ io.fn \in ReadFns /\ io.pc = "get"
    /\ bus' = i2c_get_data(bus)
    /\ LET byte == FedByte(io.fn, dev, bus.count)
           stores == \/ io.fn \in { "i2c_read", "i2c_read_array" }
                     \/ io.fn = "i2c_read16_array" /\ ~io.high_byte
           slot == IF io.fn = "i2c_read_array" THEN io.i + 1
                   ELSE IF io.fn = "i2c_read16_array" THEN io.k + 1
                   ELSE 1
           value == IF io.fn = "i2c_read16_array"
                    THEN U16(BitOr(ShiftLeft(io.high, 8), byte))
                    ELSE byte
           inside == slot <= Len(data_words)
           bytes == IF io.fn = "i2c_read16"
                    THEN [io.data EXCEPT ![io.i + 1] = byte] ELSE io.data
           next == [io EXCEPT
                      !.i = U8(@ + 1), !.data = bytes,
                      !.high = IF io.fn = "i2c_read16_array" /\ io.high_byte
                               THEN byte ELSE @,
                      !.high_byte = IF io.fn = "i2c_read16_array" THEN ~@ ELSE @,
                      !.k = IF io.fn = "i2c_read16_array" /\ ~io.high_byte
                            THEN @ + 1 ELSE @]
       IN  /\ io' = IF stores /\ ~inside THEN [next EXCEPT !.pc = "undefined"]
                    ELSE BeginRead(next)
           /\ data_words' =
                 IF stores /\ inside THEN [data_words EXCEPT ![slot] = value]
                 ELSE IF io.fn = "i2c_read16" /\ ~ReadMore(next)
                 THEN << JoinBytes(bytes) >>
                 ELSE data_words
           /\ obs' = [ObsNewByte(obs) EXCEPT
                         !.supplied = @ + 1,
                         !.overrun = @ \/ (stores /\ ~inside)]
    /\ UNCHANGED <<_millis, last_flir_error, app, wb, dl, rg, dev>>

NextBus ==
    \/ \E data \in ByteValues : CallI2cWrite(data)
    \/ \E num_bytes \in ByteCounts : CallI2cWriteArray(num_bytes)
    \/ \E data \in WordValues : CallI2cWrite16(data)
    \/ \E num_words \in WordCounts : CallI2cWrite16Array(num_words)
    \/ CallI2cRead
    \/ \E num_bytes \in ByteCounts : CallI2cReadArray(num_bytes)
    \/ CallI2cRead16
    \/ \E num_words \in WordCounts : CallI2cRead16Array(num_words)
    \/ WriteEnter
    \/ TransmitStatus
    \/ WaitForAckUntil
    \/ WaitForAckNack
    \/ WaitForAckCheck
    \/ WriteSend
    \/ ReadEnter
    \/ WaitForDataUntil
    \/ WaitForDataPoll
    \/ WaitForDataCheck
    \/ ReadGet
    \/ MillisFirstHalf
    \/ MillisSecondHalf
    \/ TransferTick

SpecBus == InitBus /\ [][NextBus]_vars

(***************************************************************************)
(* The clock on its own: a caller reads millis() again and again while the *)
(* tick interrupt fires before or between the two 32-bit loads.            *)
(***************************************************************************)
\* What is observed of the reads: ticks so far and during the current read,
\* the counter when the read was called, the value the read before it
\* returned (if any did).
ObsClock ==
    [ticks |-> 0, waited |-> 0, atCall |-> <<0, 0, 0, 0>>,
     before |-> <<0, 0, 0, 0>>, any |-> FALSE]

InitClock ==
    /\ _millis \in BootValues
    /\ last_flir_error = LEP_OK
    /\ app = AppIdle
    /\ wb = WbIdle
    /\ dl = DlIdle
    /\ rg = RgIdle
    /\ io = XferIdle
    /\ bus = BusIdle
    /\ data_words = <<>>
    /\ dev = DevIdle
    /\ obs = ObsClock

\* The caller calls millis().
CallMillisRead ==
    /\ io.pc \in { "none", "returned" }
    /\ io' = CallMillis([XferIdle EXCEPT !.fn = "millis"], "returned")
    /\ obs' = [obs EXCEPT !.waited = 0, !.atCall = _millis,
                          !.before = io.now, !.any = io.pc = "returned"]
    /\ UNCHANGED <<_millis, last_flir_error, app, wb, dl, rg, bus, data_words, dev>>

\* The caller calls delay(duration); delay begins by reading the clock.
CallDelay(duration) ==
    /\ io.pc \in { "none", "returned" }
    /\ io' = CallMillis([XferIdle EXCEPT !.fn = "delay", !.duration = duration],
                        "delay_until")
    /\ obs' = [obs EXCEPT !.waited = 0, !.atCall = _millis,
                          !.before = <<0, 0, 0, 0>>, !.any = FALSE]
    /\ UNCHANGED <<_millis, last_flir_error, app, wb, dl, rg, bus, data_words, dev>>

\* delay: const uint64_t until = millis() + duration, then the read of the
\* clock for the first test of the loop.
DelayUntil ==
    /\ io.fn = "delay" /\ io.pc = "delay_until"
    /\ io' = CallMillis([io EXCEPT !.until = AddWide(io.now, io.duration),
                                   !.now = <<0, 0, 0, 0>>], "delay_test")
    /\ UNCHANGED <<_millis, last_flir_error, app, wb, dl, rg, bus, data_words, dev, obs>>

\* delay: while (millis() < until); either another read of the clock or the
\* return.
DelayTest ==
    /\ io.fn = "delay" /\ io.pc = "delay_test"
    /\ io' = IF LessWide(io.now, io.until)
             THEN CallMillis([io EXCEPT !.now = <<0, 0, 0, 0>>], "delay_test")
             ELSE [io EXCEPT !.pc = "returned", !.until = <<0, 0, 0, 0>>]
    /\ UNCHANGED <<_millis, last_flir_error, app, wb, dl, rg, bus, data_words, dev, obs>>

NextClock ==
    \/ CallMillisRead
    \/ \E duration \in 0..MaxDelay : CallDelay(duration)
    \/ DelayUntil
    \/ DelayTest
    \/ MillisFirstHalf
    \/ MillisSecondHalf
    \/ TransferTick

SpecClock == InitClock /\ [][NextClock]_vars

(***************************************************************************)
(* micros() and delay_us(): the millisecond counter combined with the      *)
(* countdown register of the tick timer.  The register counts a            *)
(* millisecond down and reloads, and the reload raises the tick interrupt; *)
(* it is held as systick_get_value() / g_clock_mhz, the microseconds left. *)
(***************************************************************************)
MicrosPerMilli == 1000

\* Readings of the countdown that are followed, the reload value first.
CountdownValues == { MicrosPerMilli - 1, 500, 0 }

\* delay_us durations the caller passes.
DelayUsValues == { 0, 500 }

SysTickIdle == [left |-> MicrosPerMilli - 1]

\* The time since reset in microseconds, as micros() computes it from a
\* counter and a countdown that belong together.
TrueMicros ==
    AddWide(MulWide(_millis, MicrosPerMilli), MicrosPerMilli - dev.left)

InitMicros ==
    /\ _millis = <<0, 0, 0, 0>>
    /\ last_flir_error = LEP_OK
    /\ app = AppIdle
    /\ wb = WbIdle
    /\ dl = DlIdle
    /\ rg = RgIdle
    /\ io = XferIdle
    /\ bus = BusIdle
    /\ data_words = <<>>
    /\ dev = SysTickIdle
    /\ obs = ObsClock

\* The timer counts down.
SysTickCount ==
    /\ \E left \in CountdownValues :
          /\ left < dev.left
          /\ dev' = [dev EXCEPT !.left = left]
    /\ UNCHANGED <<_millis, last_flir_error, app, wb, dl, rg, io, bus, data_words, obs>>

\* The timer reloads and sys_tick_handler runs.
SysTickReload ==
    /\ dev.left = 0
    /\ obs.ticks < MaxBusTicks
    /\ dev' = [dev EXCEPT !.left = MicrosPerMilli - 1]
    /\ _millis' = AddWide(_millis, 1)
    /\ obs' = [obs EXCEPT !.ticks = @ + 1, !.waited = @ + 1]
    /\ UNCHANGED <<last_flir_error, app, wb, dl, rg, io, bus, data_words>>

\* micros() is called; execution goes on at `back` when it has returned.
CallMicros(f, back) ==
    CallMillis([f EXCEPT !.back = back, !.now = <<0, 0, 0, 0>>],
               "micros_countdown")

\* The caller calls micros().
CallMicrosRead ==
    /\ io.pc \in { "none", "returned" }
    /\ io' = CallMicros([XferIdle EXCEPT !.fn = "micros"], "returned")
    /\ obs' = [obs EXCEPT !.waited = 0, !.atCall = TrueMicros,
                          !.before = io.now,
                          !.any = io.pc = "returned" /\ io.fn = "micros"]
    /\ UNCHANGED <<_millis, last_flir_error, app, wb, dl, rg, bus, data_words, dev>>

\* micros: millis() has returned; the read of the countdown register and
\* the value returned.
MicrosCountdown ==
    /\ io.pc = "micros_countdown"
    /\ io' = [io EXCEPT !.now = AddWide(MulWide(io.now, MicrosPerMilli),
                                        MicrosPerMilli - dev.left),
                        !.pc = io.back, !.back = "none"]
    /\ UNCHANGED <<_millis, last_flir_error, app, wb, dl, rg, bus, data_words, dev, obs>>

\* The caller calls delay_us(duration); delay_us begins by reading micros().
CallDelayUs(duration) ==
    /\ io.pc \in { "none", "returned" }
    /\ io' = CallMicros([XferIdle EXCEPT !.fn = "delay_us",
                                         !.duration = duration],
                        "delay_us_until")
    /\ obs' = [obs EXCEPT !.waited = 0, !.atCall = TrueMicros,
                          !.before = <<0, 0, 0, 0>>, !.any = FALSE]
    /\ UNCHANGED <<_millis, last_flir_error, app, wb, dl, rg, bus, data_words, dev>>

\* delay_us: const uint64_t until = micros() + duration, then the read of
\* micros() for the first test of the loop.
DelayUsUntil ==
    /\ io.fn = "delay_us" /\ io.pc = "delay_us_until"
    /\ io' = CallMicros([io EXCEPT !.until = AddWide(io.now, io.duration)],
                        "delay_us_test")
    /\ UNCHANGED <<_millis, last_flir_error, app, wb, dl, rg, bus, data_words, dev, obs>>

\* delay_us: while (micros() < until); either another read or the return.
DelayUsTest ==
    /\ io.fn = "delay_us" /\ io.pc = "delay_us_test"
    /\ io' = IF LessWide(io.now, io.until)
             THEN CallMicros(io, "delay_us_test")
             ELSE [io EXCEPT !.pc = "returned", !.until = <<0, 0, 0, 0>>]
    /\ UNCHANGED <<_millis, last_flir_error, app, wb, dl, rg, bus, data_words, dev, obs>>

NextMicros ==
    \/ CallMicrosRead
    \/ \E duration \in DelayUsValues : CallDelayUs(duration)
    \/ DelayUsUntil
    \/ DelayUsTest
    \/ MicrosCountdown
    \/ MillisFirstHalf
    \/ MillisSecondHalf
    \/ SysTickCount
    \/ SysTickReload

SpecMicros == InitMicros /\ [][NextMicros]_vars

(***************************************************************************)
(* Properties.                                                             *)
(***************************************************************************)
IsPrefix(s, t) == Len(s) <= Len(t) /\ \A i \in 1..Len(s) : s[i] = t[i]

AllOk(steps) == \A i \in 1..Len(steps) : steps[i][2]

\* Steps taken in the order given, none after one that failed.
InOrder(steps, order) ==
    /\ Len(steps) <= Len(order)
    /\ \A i \in 1..Len(steps) :
          /\ steps[i][1] = order[i]
          /\ i < Len(steps) => steps[i][2]

\* C1: a wait_busy_bit(T) whose every STATUS read succeeds and shows BUSY
\* set, with no time passing outside its 1 ms sleeps, returns failure no
\* sooner than T ms and no later than T + 1 ms after it was entered.
C1_BusyTimeoutWindow ==
    (wb.pc = "done" /\ obs.allBusy /\ ~obs.stray) =>
        /\ ~wb.ret
        /\ obs.elapsed >= wb.timeout
        /\ obs.elapsed <= wb.timeout + 1

\* C2: a wait_busy_bit whose first STATUS read succeeds with BUSY clear
\* returns success after exactly one STATUS read, no sleep and no read of the
\* clock, whatever the timeout.
C2_FirstReadClear ==
    (wb.pc = "done" /\ obs.firstClear) =>
        /\ wb.ret
        /\ obs.statusReads = 1
        /\ obs.sleeps = 0
        /\ obs.clockReads = 0

C2_Witness ==
    /\ wb.pc = "done" /\ obs.firstClear /\ wb.ret
    /\ wb.timeout = 0 /\ obs.statusReads = 1

\* C3: the last error is LEP_OK until a wait_busy_bit succeeds, and after
\* that the ERROR_CODE field (bits 15..8) of the status word the most recent
\* successful wait_busy_bit ended on; get_last_flir_result returns it.
C3_LastError ==
    /\ last_flir_error = IF obs.hadOk THEN (obs.okStatus \div 256) % 256
                         ELSE LEP_OK
    /\ app.fn = "get_last_flir_result" => app.value = last_flir_error

C3_Witness ==
    /\ app.fn = "get_last_flir_result" /\ app.value = 3
    /\ obs.hadOk /\ obs.okStatus = 774

\* The words the camera supplies in a data read, first to last.
DevWords(block, n) ==
    [k \in 1..n |-> DevByte(block, 2 * (k - 1)) * Byte + DevByte(block, 2 * k - 1)]

\* C4: once a get_flir_command of N >= 1 words has read 2N from DATA_LENGTH
\* and the camera has supplied 2N bytes, the data read is over with success,
\* the buffer holds the N words in the order sent, and the call returns
\* success.
C4_GetReturnsDeviceWords ==
    (/\ app.fn = "get_flir_command" /\ app.num_words >= 1
     /\ obs.echoSeen /\ obs.echo = 2 * app.num_words
     /\ obs.supplied = 2 * app.num_words) =>
        /\ io.fn = "i2c_read16_array" => io.pc = "done" /\ io.ret
        /\ app.pc = "done" => app.ret
        /\ data_words = DevWords(dev.block, app.num_words)

\* C5: a get_flir_command of N words that reads 0, or anything but 2N, from
\* DATA_LENGTH fails, starts no data read and leaves the buffer as it was.
C5_LengthMismatch ==
    (/\ app.fn = "get_flir_command" /\ obs.echoSeen
     /\ (obs.echo = 0 \/ obs.echo # 2 * app.num_words)) =>
        /\ ~obs.dataRead
        /\ obs.supplied = 0
        /\ data_words = obs.buf0
        /\ rg.pc # "i2c_read16_array"
        /\ app.pc = "done" => ~app.ret

C5_Witness ==
    /\ app.fn = "get_flir_command" /\ app.pc = "done" /\ ~app.ret
    /\ obs.echoSeen /\ obs.echo # 0 /\ obs.echo # 2 * app.num_words
    /\ app.num_words = 17 /\ data_words = obs.buf0

GetOrder == << "wait", "write", "wait", "read" >>

GetPointers ==
    << LEP_I2C_STATUS_REG, LEP_I2C_COMMAND_REG, LEP_I2C_STATUS_REG,
       LEP_I2C_DATA_LENGTH_REG >>

\* C6: get_flir_command waits for BUSY clear, writes the command code to
\* COMMAND, waits again and reads the data block, in that order; it stops at
\* the first step that fails and returns failure with no further bus
\* traffic, returns success only if all four succeeded, and writes COMMAND
\* at most once, as the two bytes of the command code.
C6_GetStepOrder ==
    app.fn = "get_flir_command" =>
        /\ InOrder(obs.steps, GetOrder)
        /\ IsPrefix(obs.pointers, GetPointers)
        /\ obs.cmdWrites <= 1
        /\ ~obs.afterFail
        /\ obs.failed => app.pc = "done" /\ ~app.ret
        /\ app.pc = "done" => (app.ret <=> Len(obs.steps) = 4 /\ AllOk(obs.steps))
        /\ (app.pc = "write" /\ rg.pc = "done" /\ rg.ret) =>
              bus.sent = << 0, LEP_I2C_COMMAND_REG,
                            app.cmd_code \div Byte, app.cmd_code % Byte >>

C6_Witness ==
    /\ app.fn = "get_flir_command" /\ app.pc = "done" /\ ~app.ret
    /\ Len(obs.steps) = 3 /\ ~obs.steps[3][2]
    /\ obs.cmdWrites = 1 /\ obs.pointers = SubSeq(GetPointers, 1, 3)

SetOrder == << "wait", "write", "wait" >>

SetPointers(num_words) ==
    IF num_words = 0
    THEN << LEP_I2C_STATUS_REG, LEP_I2C_COMMAND_REG, LEP_I2C_STATUS_REG >>
    ELSE << LEP_I2C_STATUS_REG, LEP_I2C_DATA_LENGTH_REG,
            IF num_words <= 16 THEN LEP_I2C_DATA_0_REG ELSE LEP_I2C_DATA_BUFFER,
            LEP_I2C_COMMAND_REG, LEP_I2C_STATUS_REG >>

\* C7: set_flir_command waits for BUSY clear, writes the payload and the
\* command, and waits again, in that order; it returns success exactly when
\* all three succeed, writes no register when the first wait fails, and does
\* not report success unless the second wait saw BUSY clear.
C7_SetStepOrder ==
    app.fn = "set_flir_command" =>
        /\ InOrder(obs.steps, SetOrder)
        /\ IsPrefix(obs.pointers, SetPointers(app.num_words))
        /\ obs.cmdWrites <= 1
        /\ ~obs.afterFail
        /\ app.pc = "done" => (app.ret <=> Len(obs.steps) = 3 /\ AllOk(obs.steps))
        /\ (Len(obs.steps) >= 1 /\ ~obs.steps[1][2]) =>
              /\ obs.cmdWrites = 0 /\ ~obs.payloadSent
              /\ IsPrefix(obs.pointers, << LEP_I2C_STATUS_REG >>)
        /\ (app.pc = "done" /\ app.ret) =>
              /\ obs.cmdWrites = 1
              /\ obs.hadOk /\ obs.okStatus = dev.word /\ ~DevBusy

C7_Witness ==
    /\ app.fn = "set_flir_command" /\ app.pc = "done" /\ app.ret
    /\ app.num_words = 16 /\ obs.payloadSent /\ obs.cmdWrites = 1
    /\ obs.pointers = SetPointers(16)

\* C8: a set payload goes to the block data buffer when it has more than 16
\* words and to the direct data registers when it has 1 to 16.
C8_PayloadPlacement ==
    (app.fn = "set_flir_command" /\ obs.payloadSent) =>
        /\ app.num_words >= 1
        /\ obs.payloadAddr = IF app.num_words > 16 THEN LEP_I2C_DATA_BUFFER
                             ELSE LEP_I2C_DATA_0_REG

C8_Witness ==
    /\ app.fn = "set_flir_command" /\ obs.payloadSent
    /\ app.num_words = 17 /\ obs.payloadAddr = LEP_I2C_DATA_BUFFER

\* C9: the data read of a get_flir_command of N words starts at the direct
\* data registers when N <= 16 and at the block data buffer when N > 16.
C9_GetReadPlacement ==
    (app.fn = "get_flir_command" /\ obs.dataRead) =>
        obs.ptrAtData = IF app.num_words <= 16 THEN LEP_I2C_DATA_0_REG
                        ELSE LEP_I2C_DATA_BUFFER

\* C10: command_code changes no state, and the fields of its result are the
\* type bits of cmd_type (bits 1..0), the command id bits of cmd_id (bits
\* 7..2) and the module id bits of cmd_id (bits 11..8).
C10_CommandCodeFields ==
    app.fn = "command_code" =>
        /\ app.value % 4 = app.cmd_type % 4
        /\ (app.value \div 4) % 64 = (app.cmd_id \div 4) % 64
        /\ (app.value \div 256) % 16 = (app.cmd_id \div 256) % 16
        /\ last_flir_error = LEP_OK /\ _millis \in BootValues
        /\ <<wb, dl, rg, io, data_words, obs>> =
              <<WbIdle, DlIdle, RgIdle, IoIdle, <<>>, ObsCall>>

C10_Witness ==
    /\ app.fn = "command_code"
    /\ app.cmd_id = 2076 /\ app.cmd_type = 65535 /\ app.value = 2079

\* C13: an error code in a STATUS word with BUSY clear makes nothing fail:
\* a wait_busy_bit whose STATUS reads all succeeded and whose last word has
\* BUSY clear returns success whatever the code, which is only recorded, and
\* get_flir_command and set_flir_command fail only by a step that failed,
\* with the register accesses of the plain sequence.
C13_ErrorCodeIgnored ==
    /\ (wb.pc = "done" /\ ~obs.readFailed /\ ~DevBusy) =>
          /\ wb.ret
          /\ last_flir_error = (dev.word \div 256) % 256
    /\ (wb.pc = "done" /\ ~wb.ret) => obs.readFailed \/ DevBusy
    /\ (app.fn \in { "get_flir_command", "set_flir_command" }
          /\ app.pc = "done" /\ ~app.ret) => obs.failed
    /\ app.fn = "get_flir_command" => IsPrefix(obs.pointers, GetPointers)
    /\ app.fn = "set_flir_command" =>
          IsPrefix(obs.pointers, SetPointers(app.num_words))

C13_Witness ==
    /\ app.fn = "get_flir_command" /\ app.pc = "done" /\ app.ret
    /\ last_flir_error = 3 /\ dev.word # 774
    /\ obs.pointers = GetPointers

\* C20: when a STATUS read inside wait_busy_bit fails, the first one or one
\* in the loop, wait_busy_bit returns failure at once, with no further sleep
\* and no further STATUS read.
C20_StatusReadFailure ==
    obs.readFailed =>
        /\ \/ wb.pc = "done" /\ ~wb.ret
           \/ wb.pc = "none" /\ app.pc = "done" /\ ~app.ret
        /\ obs.statusReads = obs.failReads
        /\ obs.sleeps = obs.failSleeps
        /\ rg.pc = "none" /\ io.pc = "none"

C20_Witness ==
    /\ obs.readFailed /\ wb.pc = "done" /\ ~wb.ret
    /\ obs.failReads = 2 /\ obs.failSleeps = 1

\* The bytes of a word, high byte first.
HighLow(w) == << w \div Byte, w % Byte >>

\* C18: write_register is one write transaction of declared length 4 whose
\* bytes are the address and then the value, each high byte first;
\* read_register is a write transaction of 2 bytes, the address, followed by
\* a read transaction of 2 bytes; when the write of the address fails it
\* starts no read transaction and leaves the output as it was.
C18_RegisterTransactions ==
    /\ (rg.fn = "write_register" /\ rg.pc # "enter") =>
          /\ IsPrefix(obs.xfers, << <<I2C_WRITE_DIR, 4>> >>)
          /\ rg.pc = "done" =>
                /\ Len(obs.xfers) = 1
                /\ IsPrefix(bus.sent, HighLow(rg.reg_address) \o HighLow(rg.value))
                /\ rg.ret => Len(bus.sent) = 4
    /\ (rg.fn = "read_register" /\ rg.pc # "enter") =>
          /\ IsPrefix(obs.xfers, << <<I2C_WRITE_DIR, 2>>, <<I2C_READ_DIR, 2>> >>)
          /\ (rg.pc = "i2c_write16" /\ io.pc = "done") =>
                /\ Len(obs.xfers) = 1
                /\ IsPrefix(bus.sent, HighLow(rg.reg_address))
                /\ io.ret => Len(bus.sent) = 2
          /\ (rg.pc = "done" /\ rg.ret) => Len(obs.xfers) = 2
          /\ obs.ptrFailed =>
                /\ rg.pc = "done" /\ ~rg.ret
                /\ obs.xfers = << <<I2C_WRITE_DIR, 2>> >>
                /\ rg.value = RgIdle.value

C18_Witness ==
    /\ rg.fn = "read_register" /\ rg.pc = "done" /\ obs.ptrFailed
    /\ obs.xfers = << <<I2C_WRITE_DIR, 2>> >> /\ Len(bus.sent) = 1

\* C22: whatever value the counter started from, a wait_busy_bit(T) that
\* reports a busy timeout (every STATUS read succeeded, the last one with BUSY
\* set) does so no sooner than T ms after it was entered.
C22_NoEarlyBusyTimeout ==
    (wb.pc = "done" /\ ~wb.ret /\ ~obs.readFailed) =>
        obs.elapsed >= wb.timeout

(***************************************************************************)
(* Properties of the transport (SpecBus).                                  *)
(***************************************************************************)

\* The write function is between its i2c_prepare and its return.
WriteWaiting == io.fn \in WriteFns /\ InTransfer /\ io.pc # "enter"

\* C11: a byte-level write waits for one byte no longer than I2C_TIMEOUT
\* (to the granularity of the clock) before it returns, also when the
\* controller never reports transmit-ready and never flags NACK.
C11_WriteWaitBounded ==
    (WriteWaiting /\ ~obs.nackSeen) => obs.waited <= I2C_TIMEOUT + 2

\* C12: i2c_write16 of V puts V >> 8 and then V & 0xFF on the bus, and
\* i2c_read16 fed those two bytes in that order returns V.
C12_WordRoundTrip ==
    /\ (io.fn = "i2c_write16" /\ io.pc = "done" /\ io.ret) =>
          bus.sent = << io.word \div Byte, io.word % Byte >>
    /\ (io.fn = "i2c_read16" /\ io.pc = "done" /\ io.ret) =>
          data_words = << dev.word >>

C12_Witness ==
    /\ io.fn = "i2c_read16" /\ io.pc = "done" /\ io.ret
    /\ dev.word = 43981 /\ data_words = << 43981 >>
    /\ obs.buf0 = << FillWord >>

\* Where a controller operation stands among those of the last i2c_prepare
\* (0 when it is not among them).
OpIndex(name) ==
    IF \E i \in 1..Len(bus.ops) : bus.ops[i] = name
    THEN CHOOSE i \in 1..Len(bus.ops) : bus.ops[i] = name
    ELSE 0

\* C15: every transaction a read or write function begins programs the
\* address, the direction and the byte count before the start condition; a
\* write enables auto-end before the start, a read sends the start first and
\* enables auto-end as the very next controller operation.
C15_PrepareOrder ==
    (io.fn \in WriteFns \cup ReadFns /\ io.pc # "enter") =>
        LET start == OpIndex("i2c_send_start")
            dir == IF io.fn \in WriteFns THEN "i2c_set_write_transfer_dir"
                   ELSE "i2c_set_read_transfer_dir"
        IN  /\ Len(bus.ops) = 5 /\ start > 0
            /\ OpIndex("i2c_set_7bit_address") \in 1..(start - 1)
            /\ OpIndex(dir) \in 1..(start - 1)
            /\ OpIndex("i2c_set_bytes_to_transfer") \in 1..(start - 1)
            /\ io.fn \in WriteFns =>
                  OpIndex("i2c_enable_autoend") \in 1..(start - 1)
            /\ io.fn \in ReadFns => OpIndex("i2c_enable_autoend") = start + 1
            /\ bus.dir = IF io.fn \in WriteFns THEN I2C_WRITE_DIR
                         ELSE I2C_READ_DIR

C15_Witness ==
    /\ io.fn = "i2c_read_array" /\ io.pc = "rx_poll"
    /\ bus.dir = I2C_READ_DIR /\ bus.nbytes = 2
    /\ bus.ops[4] = "i2c_send_start" /\ bus.ops[5] = "i2c_enable_autoend"

\* C16: for every n in 0..255, i2c_write16_array of n words declares exactly
\* 2n bytes to the controller and, when nothing times out, streams exactly
\* those 2n bytes, the high and then the low byte of each word in array order.
C16_DeclaredEqualsStreamed ==
    (io.fn = "i2c_write16_array" /\ io.pc # "enter") =>
        /\ bus.nbytes = 2 * io.num_words
        /\ Len(bus.sent) <= 2 * io.num_words
        /\ \A j \in 1..Len(bus.sent) :
              bus.sent[j] = IF j % 2 = 1 THEN data_words[(j + 1) \div 2] \div Byte
                            ELSE data_words[j \div 2] % Byte
        /\ (io.pc = "done" /\ io.ret) => Len(bus.sent) = 2 * io.num_words

\* C17: for every n in 0..255, i2c_read16_array of n words declares a read of
\* exactly 2n bytes, takes no more than 2n bytes from the controller, stores
\* into data[0..n-1] only, and when it returns success has taken exactly 2n
\* bytes and stored the n words in the order received.
C17_ReadsExactlyDeclared ==
    (io.fn = "i2c_read16_array" /\ io.pc # "enter") =>
        /\ bus.nbytes = 2 * io.num_words
        /\ obs.supplied <= 2 * io.num_words
        /\ ~obs.overrun /\ io.pc # "undefined"
        /\ Len(data_words) = io.num_words
        /\ (io.pc = "done" /\ io.ret) =>
              /\ obs.supplied = 2 * io.num_words
              /\ data_words = DevWords(dev.block, io.num_words)

\* C19: a read function fails by wait_for_empty_data_reg(I2C_TIMEOUT) only
\* after the clock has passed the time the wait began plus I2C_TIMEOUT, and
\* then i2c_read and i2c_read16 have not written the caller's output value.
C19_DataWaitFailsLate ==
    (io.fn \in ReadFns /\ io.pc = "done" /\ ~io.ret) =>
        /\ obs.waited > I2C_TIMEOUT
        /\ io.fn \in { "i2c_read", "i2c_read16" } => data_words = obs.buf0

(***************************************************************************)
(* Properties of the clock (SpecClock).                                    *)
(***************************************************************************)

\* C14: whenever the tick fires, a value millis() returns is one the counter
\* held between the call and the return, and is not below the value the
\* read before it returned.
C14_ClockReadSafe ==
    (io.fn = "millis" /\ io.pc = "returned") =>
        /\ ~LessWide(io.now, obs.atCall)
        /\ ~LessWide(_millis, io.now)
        /\ obs.any => ~LessWide(io.now, obs.before)

\* C21: delay(d) returns only when the counter is at least what it was when
\* delay was entered plus d; delay(0) returns after the first test of its
\* loop, without a tick.
C21_DelayLowerBound ==
    /\ (io.fn = "delay" /\ io.pc = "returned") =>
          ~LessWide(_millis, AddWide(obs.atCall, io.duration))
    /\ (io.fn = "delay" /\ io.pc = "delay_test" /\ io.duration = 0) =>
          ~LessWide(io.now, io.until)

(***************************************************************************)
(* Properties of micros() and delay_us() (SpecMicros).                     *)
(***************************************************************************)

\* C23: a value micros() returns is not below the value the call before it
\* returned, also when the timer reloads and the tick fires between the read
\* of the millisecond counter and the read of the countdown register; and
\* delay_us(d) returns no sooner than d microseconds after it was called.
C23_MicrosMonotonic ==
    /\ (io.fn = "micros" /\ io.pc = "returned" /\ obs.any) =>
          ~LessWide(io.now, obs.before)
    /\ (io.fn = "delay_us" /\ io.pc = "returned") =>
          ~LessWide(TrueMicros, AddWide(obs.atCall, io.duration))

====
